---- MODULE Spec2Model ----
(***************************************************************************)
(* A model of the YouTube channel analyzer (src/app.py): the duration      *)
(* classifier, the catalog fetcher, the aggregator, the exporter and the   *)
(* "Run analysis" handler.                                                 *)
(*                                                                         *)
(* Python strings whose characters the code inspects (durations, view      *)
(* counts, the channel input) are sequences of one-character strings.      *)
(* Page tokens and video identifiers, which the code only passes on, are   *)
(* tuples and integers.                                                    *)
(***************************************************************************)
EXTENDS Integers, Sequences, FiniteSets, TLC

\* ------------------------------------------------------------------------
\* Python values and string primitives
\* ------------------------------------------------------------------------

\* Python's None, and a value that is present where None may stand
None == <<>>

Some(x) == <<x>>

\* the characters int() accepts as decimal digits, in order of value
DigitChars == <<"0", "1", "2", "3", "4", "5", "6", "7", "8", "9">>

DigitSet == {DigitChars[k] : k \in 1..10}

DigitValues == [c \in DigitSet |-> (CHOOSE k \in 1..10 : DigitChars[k] = c) - 1]

IsDigit(c) == c \in DigitSet

DigitValue(c) == DigitValues[c]

\* str(n) for a natural number n
RECURSIVE StrOfNat(_)
StrOfNat(n) ==
    IF n < 10 THEN <<DigitChars[n + 1]>>
    ELSE Append(StrOfNat(n \div 10), DigitChars[(n % 10) + 1])

\* s.startswith(p) at offset k (1-based)
MatchesAt(s, p, k) ==
    /\ k + Len(p) - 1 <= Len(s)
    /\ \A j \in 1..Len(p) : s[k + j - 1] = p[j]

\* p in s
Contains(s, p) == \E k \in 1..(Len(s) + 1) : MatchesAt(s, p, k)

\* s.replace(old, new): every non-overlapping occurrence, left to right
RECURSIVE StrReplace(_, _, _)
StrReplace(s, old, new) ==
    IF Len(s) = 0 THEN <<>>
    ELSE IF MatchesAt(s, old, 1)
         THEN new \o StrReplace(SubSeq(s, Len(old) + 1, Len(s)), old, new)
         ELSE <<s[1]>> \o StrReplace(SubSeq(s, 2, Len(s)), old, new)

\* s.split(sep) for a one-character separator: the list of pieces
RECURSIVE StrSplit(_, _)
StrSplit(s, sep) ==
    IF ~Contains(s, <<sep>>) THEN <<s>>
    ELSE LET k == CHOOSE i \in 1..Len(s) :
                      s[i] = sep /\ \A j \in 1..(i - 1) : s[j] # sep
         IN  <<SubSeq(s, 1, k - 1)>> \o StrSplit(SubSeq(s, k + 1, Len(s)), sep)

\* the value of a digit string, most significant digit first
RECURSIVE DigitsValue(_)
DigitsValue(s) ==
    IF Len(s) = 0 THEN 0
    ELSE 10 * DigitsValue(SubSeq(s, 1, Len(s) - 1)) + DigitValue(s[Len(s)])

\* int(s): raises ValueError unless s is a non-empty string of digits
PyInt(s) ==
    IF Len(s) > 0 /\ \A k \in 1..Len(s) : IsDigit(s[k])
    THEN [raised |-> FALSE, value |-> DigitsValue(s)]
    ELSE [raised |-> TRUE, value |-> 0]

\* ------------------------------------------------------------------------
\* Constants of the program
\* ------------------------------------------------------------------------

SHORTS_LIMIT_SEC_DEFAULT == 180

\* float("inf"): greater than every view count
Infinity == -1

DEFAULT_VIEW_BRACKETS ==
    << [name |-> "1K-5K",     lo |-> 1000,    hi |-> 5000],
       [name |-> "5K-10K",    lo |-> 5000,    hi |-> 10000],
       [name |-> "10K-25K",   lo |-> 10000,   hi |-> 25000],
       [name |-> "25K-50K",   lo |-> 25000,   hi |-> 50000],
       [name |-> "50K-100K",  lo |-> 50000,   hi |-> 100000],
       [name |-> "100K-250K", lo |-> 100000,  hi |-> 250000],
       [name |-> "250K-500K", lo |-> 250000,  hi |-> 500000],
       [name |-> "500K-1M",   lo |-> 500000,  hi |-> 1000000],
       [name |-> "1M+",       lo |-> 1000000, hi |-> Infinity] >>

\* ------------------------------------------------------------------------
\* Duration classifier
\* ------------------------------------------------------------------------

\* lines 25-34 of check_if_short: the parsed hours, minutes and seconds, or
\* the ValueError of a failed unpacking or int()
ParseDuration(duration_iso) ==
    LET d0 == StrReplace(duration_iso, <<"P", "T">>, <<>>)
        hasH == Contains(d0, <<"H">>)
        sh == StrSplit(d0, "H")
        hours == IF hasH THEN PyInt(sh[1]) ELSE [raised |-> FALSE, value |-> 0]
        d1 == IF hasH /\ Len(sh) = 2 THEN sh[2] ELSE d0
        hasM == Contains(d1, <<"M">>)
        sm == StrSplit(d1, "M")
        minutes == IF hasM THEN PyInt(sm[1]) ELSE [raised |-> FALSE, value |-> 0]
        d2 == IF hasM /\ Len(sm) = 2 THEN sm[2] ELSE d1
        hasS == Contains(d2, <<"S">>)
        seconds == IF hasS THEN PyInt(StrReplace(d2, <<"S">>, <<>>))
                   ELSE [raised |-> FALSE, value |-> 0]
    IN  [raised  |-> \/ (hasH /\ (Len(sh) # 2 \/ hours.raised))
                     \/ (hasM /\ (Len(sm) # 2 \/ minutes.raised))
                     \/ seconds.raised,
         hours   |-> hours.value,
         minutes |-> minutes.value,
         seconds |-> seconds.value]

\* check_if_short comparing with `<` in place of `<=`
CheckIfShortStrict(duration_iso, limit_sec) ==
    LET p == ParseDuration(duration_iso)
    IN  IF p.raised THEN [raised |-> TRUE, value |-> FALSE]
        ELSE [raised |-> FALSE,
              value |-> p.hours * 3600 + p.minutes * 60 + p.seconds < limit_sec]

\* check_if_short(duration_iso, limit_sec): the returned bool, or raised
check_if_short(duration_iso, limit_sec) ==
    LET p == ParseDuration(duration_iso)
    IN  IF p.raised THEN [raised |-> TRUE, value |-> FALSE]
        ELSE [raised |-> FALSE,
              value |-> p.hours * 3600 + p.minutes * 60 + p.seconds <= limit_sec]

\* ------------------------------------------------------------------------
\* Dates, timestamps and month buckets
\* ------------------------------------------------------------------------

\* date.today() at the time of the run
Today == <<2026, 11, 3>>

\* a <= b for datetime.date values <<year, month, day>>
DateLE(a, b) ==
    \/ a[1] < b[1]
    \/ a[1] = b[1] /\ a[2] < b[2]
    \/ a[1] = b[1] /\ a[2] = b[2] /\ a[3] <= b[3]

\* a number as exactly two digits
TwoDigits(n) == <<DigitChars[(n \div 10) + 1], DigitChars[(n % 10) + 1]>>

\* the API's publishedAt text, YYYY-MM-DDTHH:MM:SSZ, for four-digit years
IsoTimestamp(y, m, d, hh, mm, ss) ==
    StrOfNat(y) \o <<"-">> \o TwoDigits(m) \o <<"-">> \o TwoDigits(d) \o <<"T">>
        \o TwoDigits(hh) \o <<":">> \o TwoDigits(mm) \o <<":">> \o TwoDigits(ss)
        \o <<"Z">>

\* datetime.strptime(s, "%Y-%m-%dT%H:%M:%SZ") on a text of that layout
Strptime(s) ==
    [year   |-> PyInt(SubSeq(s, 1, 4)).value,
     month  |-> PyInt(SubSeq(s, 6, 7)).value,
     day    |-> PyInt(SubSeq(s, 9, 10)).value,
     hour   |-> PyInt(SubSeq(s, 12, 13)).value,
     minute |-> PyInt(SubSeq(s, 15, 16)).value,
     second |-> PyInt(SubSeq(s, 18, 19)).value]

MonthNames ==
    <<"January", "February", "March", "April", "May", "June", "July",
      "August", "September", "October", "November", "December">>

\* pub_dt.strftime("%B %Y"): the month's name and the year
StrftimeMonthYear(dt) == <<MonthNames[dt.month], dt.year>>

\* the month names in the order Python compares them as strings
MonthNamesSorted ==
    <<"April", "August", "December", "February", "January", "July", "June",
      "March", "May", "November", "October", "September">>

AlphaRank(name) == CHOOSE k \in 1..12 : MonthNamesSorted[k] = name

\* a < b for "%B %Y" strings (four-digit years)
MonthStrLess(a, b) ==
    \/ AlphaRank(a[1]) < AlphaRank(b[1])
    \/ a[1] = b[1] /\ a[2] < b[2]

\* ------------------------------------------------------------------------
\* Data frames: the columns and the rows in index order
\* ------------------------------------------------------------------------

RowColumns ==
    {"video_id", "title", "published_date", "month", "view_count",
     "duration_sec", "form"}

\* pd.DataFrame(rows) for a list of row dicts: no rows, no columns
DataFrame(rows) ==
    [cols |-> IF Len(rows) = 0 THEN {} ELSE RowColumns, rows |-> rows]

RECURSIVE SumSeq(_)
SumSeq(s) == IF Len(s) = 0 THEN 0 ELSE s[1] + SumSeq(Tail(s))

\* a set of month strings as the sorted list of group keys
RECURSIVE SortedMonths(_)
SortedMonths(S) ==
    IF S = {} THEN <<>>
    ELSE LET m == CHOOSE x \in S : \A y \in S \ {x} : MonthStrLess(x, y)
         IN  <<m>> \o SortedMonths(S \ {m})

\* df.groupby("month"): the group keys in sorted order
GroupKeys(rows) == SortedMonths({rows[k].month : k \in 1..Len(rows)})

\* the view counts of a list of rows
Views(rows) == [k \in 1..Len(rows) |-> rows[k].view_count]

\* Series.median() then astype(int) for non-negative integers
MedianInt(vs) ==
    LET s == SortSeq(vs, LAMBDA a, b : a < b)
        n == Len(s)
    IN  IF n % 2 = 1 THEN s[(n + 1) \div 2]
        ELSE (s[n \div 2] + s[(n \div 2) + 1]) \div 2

\* ------------------------------------------------------------------------
\* Catalog fetcher: the record of one video (get_video_details, lines 66-85)
\* ------------------------------------------------------------------------

\* itm["statistics"].get("viewCount", 0), then int()
ViewCountOf(itm) ==
    IF itm.statistics.viewCount = None THEN [raised |-> FALSE, value |-> 0]
    ELSE PyInt(itm.statistics.viewCount[1])

\* the "form" column given the classifier's answer, with "Long" misspelt
FormOfLower(is_short) == IF is_short THEN "Short" ELSE "long"

\* line 85: "Short" if check_if_short(...) else "Long"
FormOf(is_short) == IF is_short THEN "Short" ELSE "Long"

\* the row appended for one item of a videos().list response, or raised
MakeRow(itm, short_limit) ==
    LET pub_dt == Strptime(itm.snippet.publishedAt)
        vc == ViewCountOf(itm)
        cls == check_if_short(itm.contentDetails.duration, short_limit)
    IN  [raised |-> vc.raised \/ cls.raised,
         row |-> [video_id       |-> itm.id,
                  title          |-> itm.snippet.title,
                  published_date |-> <<pub_dt.year, pub_dt.month, pub_dt.day>>,
                  month          |-> StrftimeMonthYear(pub_dt),
                  view_count     |-> vc.value,
                  duration_sec   |-> itm.contentDetails.duration,
                  form           |-> FormOf(cls.value)]]

\* lines 66-85 for a whole response: one result per item, in item order
MakeRowResults(items, short_limit) ==
    [k \in 1..Len(items) |-> MakeRow(items[k], short_limit)]

\* the rows appended when no item raised
RowsOf(results) == [k \in 1..Len(results) |-> results[k].row]

AnyRaised(results) == \E k \in 1..Len(results) : results[k].raised

\* the rows of a whole response
MakeRows(items, short_limit) == RowsOf(MakeRowResults(items, short_limit))

\* ------------------------------------------------------------------------
\* Aggregator
\* ------------------------------------------------------------------------

SummaryColumns ==
    {"month", "total_videos", "shorts", "longs", "total_views", "avg_views",
     "median_views"}

\* the number of rows of a group whose "form" is f
CountForm(sub, f) == Len(SelectSeq(sub, LAMBDA r : r.form = f))

\* monthly_summary(df) for a frame with at least one row: one row per group
\* key, in sorted key order
monthly_summary(df) ==
    LET keys == GroupKeys(df.rows)
        Group(m) == SelectSeq(df.rows, LAMBDA r : r.month = m)
    IN  [cols |-> SummaryColumns,
         rows |-> [k \in 1..Len(keys) |->
                     LET sub == Group(keys[k])
                     IN  [month        |-> keys[k],
                          total_videos |-> Len(sub),
                          shorts       |-> CountForm(sub, "Short"),
                          longs        |-> CountForm(sub, "Long"),
                          total_views  |-> SumSeq(Views(sub)),
                          avg_views    |-> SumSeq(Views(sub)) \div Len(sub),
                          median_views |-> MedianInt(Views(sub))]]]

\* view_count < hi, where hi may be float("inf")
BelowHi(v, hi) == hi = Infinity \/ v < hi

\* line 112 with the upper end included
InBracketClosed(v, br) == v >= br.lo /\ (br.hi = Infinity \/ v <= br.hi)

\* line 112: (view_count >= lo) & (view_count < hi)
InBracket(v, br) == v >= br.lo /\ BelowHi(v, br.hi)

BracketNames(brackets) == {brackets[k].name : k \in 1..Len(brackets)}

\* view_bracket_split(df, brackets) for a frame with at least one row and a
\* mapping of name -> (lo, hi): per group key, the count of each bracket
view_bracket_split(df, brackets) ==
    LET keys == GroupKeys(df.rows)
        Group(m) == SelectSeq(df.rows, LAMBDA r : r.month = m)
        Br(nm) == brackets[CHOOSE k \in 1..Len(brackets) : brackets[k].name = nm]
    IN  [cols |-> {"month"} \cup BracketNames(brackets),
         rows |-> [k \in 1..Len(keys) |->
                     [month  |-> keys[k],
                      counts |-> [nm \in BracketNames(brackets) |->
                                    Len(SelectSeq(Group(keys[k]),
                                        LAMBDA r : InBracket(r.view_count, Br(nm))))]]]]

\* the index of the row nlargest takes next: the greatest view count, the
\* last occurrence among equals
BestIndexLast(rows, left) ==
    CHOOSE i \in left :
        \A j \in left \ {i} :
            \/ rows[i].view_count > rows[j].view_count
            \/ rows[i].view_count = rows[j].view_count /\ i > j

\* the index of the row nlargest takes next: the greatest view count, the
\* first occurrence among equals (keep="first")
BestIndex(rows, left) ==
    CHOOSE i \in left :
        \A j \in left \ {i} :
            \/ rows[i].view_count > rows[j].view_count
            \/ rows[i].view_count = rows[j].view_count /\ i < j

\* the n rows nlargest takes when n is less than the number of rows: the
\* candidates are ordered by a stable sort (mergesort), keep="first"
RECURSIVE NLargest(_, _, _)
NLargest(rows, left, n) ==
    IF n <= 0 \/ left = {} THEN <<>>
    ELSE LET i == BestIndex(rows, left)
         IN  <<i>> \o NLargest(rows, left \ {i}, n - 1)

\* the orders sort_values(ascending=False) may leave the rows in: its default
\* sort kind is quicksort, which is not stable, so the rows of equal view
\* count come in an order the library does not fix
RECURSIVE SortedOrders(_, _)
SortedOrders(rows, left) ==
    IF left = {} THEN {<<>>}
    ELSE LET top == {i \in left :
                       \A j \in left : rows[i].view_count >= rows[j].view_count}
         IN  UNION {{<<i>> \o rest : rest \in SortedOrders(rows, left \ {i})} :
                    i \in top}

\* df.nlargest(n, "view_count"): the index sequences it may return. With n at
\* least the number of rows pandas sorts the whole column instead of
\* selecting, and returns the head of that
nlargest(rows, n) ==
    IF n <= 0 THEN {<<>>}
    ELSE IF n >= Len(rows) THEN SortedOrders(rows, 1..Len(rows))
    ELSE {NLargest(rows, 1..Len(rows), n)}

\* "https://youtu.be/" + video_id
UrlOf(video_id) == <<"https://youtu.be/", video_id>>

\* the rows at the indices idx, narrowed to top_n's columns, with the url
\* column and the index reset
TopFrame(df, idx) ==
    [cols |-> {"title", "view_count", "video_id", "month", "url"},
     rows |-> [k \in 1..Len(idx) |->
                 LET r == df.rows[idx[k]]
                 IN  [title      |-> r.title,
                      view_count |-> r.view_count,
                      video_id   |-> r.video_id,
                      month      |-> r.month,
                      url        |-> UrlOf(r.video_id)]]]

\* top_n(df, n): the frames the call may return
top_n(df, n) == {TopFrame(df, idx) : idx \in nlargest(df.rows, n)}

\* ------------------------------------------------------------------------
\* Report exporter
\* ------------------------------------------------------------------------

\* to_excel: the workbook's sheets, in the order they are written
to_excel(raw_df, summary_df, bracket_df, top_df) ==
    << [sheet |-> "Raw Data", data |-> raw_df],
       [sheet |-> "Monthly Summary", data |-> summary_df],
       [sheet |-> "View Brackets", data |-> bracket_df],
       [sheet |-> "Top 20 Videos", data |-> top_df],
       [sheet |-> "Overview",
        data  |-> << <<"Total videos", Len(raw_df.rows),
                       "Total views", SumSeq(Views(raw_df.rows))>>,
                     <<"Shorts", CountForm(raw_df.rows, "Short"),
                       "Longs", CountForm(raw_df.rows, "Long")>> >>] >>

\* ------------------------------------------------------------------------
\* The handler's date filter and bracket configuration
\* ------------------------------------------------------------------------

\* line 193 for a frame that has the published_date column: the rows within
\* [start, end], both ends included, index reset
FilterByDate(frame, start, end) ==
    [cols |-> frame.cols,
     rows |-> SelectSeq(frame.rows,
                  LAMBDA r : DateLE(start, r.published_date)
                                 /\ DateLE(r.published_date, end))]

\* str.strip(): leading and trailing blanks removed
RECURSIVE StrStrip(_)
StrStrip(s) ==
    IF Len(s) = 0 THEN s
    ELSE IF s[1] = " " THEN StrStrip(Tail(s))
    ELSE IF s[Len(s)] = " " THEN StrStrip(SubSeq(s, 1, Len(s) - 1))
    ELSE s

\* "youtube.com"
YoutubeCom == <<"y", "o", "u", "t", "u", "b", "e", ".", "c", "o", "m">>

\* lines 182-185: the channel identifier taken from the input
ChannelIdOf(input) ==
    LET stripped == StrStrip(input)
        parts == StrSplit(stripped, "/")
    IN  IF Contains(stripped, YoutubeCom) THEN parts[Len(parts)] ELSE stripped

\* line 178 with `and` in place of `or`
InputsMissingBoth(key, channel) == Len(key) = 0 /\ Len(channel) = 0

\* line 178: not api_key or not channel_input
InputsMissing(key, channel) == Len(key) = 0 \/ Len(channel) = 0

\* the texts of the bracket box the model tries
ViewbrTexts ==
    {"str(DEFAULT_VIEW_BRACKETS)", "[1, 2]",
     "{'low': (0, 5000), 'high': (5000, 10**9)}", "{'a': 5}"}

\* eval(viewbr_json), line 198: the default text names `inf`, which the
\* module does not define, so its evaluation raises NameError; a dict whose
\* values are not pairs is a dict all the same
PyEval(text) ==
    CASE text = "str(DEFAULT_VIEW_BRACKETS)" ->
             [raised |-> TRUE, isdict |-> FALSE, pairs |-> FALSE, value |-> <<>>]
      [] text = "[1, 2]" ->
             [raised |-> FALSE, isdict |-> FALSE, pairs |-> FALSE, value |-> <<>>]
      [] text = "{'low': (0, 5000), 'high': (5000, 10**9)}" ->
             [raised |-> FALSE, isdict |-> TRUE, pairs |-> TRUE,
              value |-> << [name |-> "low", lo |-> 0, hi |-> 5000],
                           [name |-> "high", lo |-> 5000, hi |-> 1000000000] >>]
      [] text = "{'a': 5}" ->
             [raised |-> FALSE, isdict |-> TRUE, pairs |-> FALSE, value |-> <<>>]

\* lines 196-202: the brackets the histogram uses and whether the warning
\* is shown
ChooseBrackets(text) ==
    LET custom_br == PyEval(text)
    IN  [warned   |-> custom_br.raised,
         pairs    |-> IF ~custom_br.raised /\ custom_br.isdict
                      THEN custom_br.pairs ELSE TRUE,
         brackets |-> IF ~custom_br.raised /\ custom_br.isdict
                      THEN custom_br.value ELSE DEFAULT_VIEW_BRACKETS]

\* an exception nothing catches, swallowed as if by try/except: pass
AfterStepSwallowing(raised, next_pc) == next_pc

\* lines 187-214 hold no try/except but the one around eval: a statement
\* that raises ends the run, one that returns lets the next one run
AfterStep(raised, next_pc) == IF raised THEN "fatal" ELSE next_pc

\* ------------------------------------------------------------------------
\* Catalog fetcher: the requests
\* ------------------------------------------------------------------------

\* maxResults of playlistItems().list, line 48
MAX_RESULTS == 50

\* the step of range(0, len(video_ids), 50) and of the slice, lines 60-63
BATCH == 50

\* `not nxt`: None and the empty string both end the loop
Falsy(tok) == tok = None \/ tok = Some("")

\* line 51 with the page put in front
ExtendFront(list, page) == page \o list

\* line 51: vids.extend(...)
Extend(list, page) == list \o page

\* the slice one item short
BatchSliceShort(video_ids, i) ==
    SubSeq(video_ids, i + 1,
           IF i + BATCH - 1 < Len(video_ids) THEN i + BATCH - 1 ELSE Len(video_ids))

\* line 63: video_ids[i : i + 50]
BatchSlice(video_ids, i) ==
    SubSeq(video_ids, i + 1,
           IF i + BATCH < Len(video_ids) THEN i + BATCH ELSE Len(video_ids))

\* ------------------------------------------------------------------------
\* State
\* ------------------------------------------------------------------------

VARIABLES
    pc,             \* the statement the script is at
    api_key,        \* the widgets' values when "Run analysis" is clicked
    channel_input,
    analyze_all,
    start_date,
    end_date,
    short_limit,
    viewbr_json,
    channel_id,     \* the handler's locals
    uploads_pl,     \* get_all_video_ids' locals
    nxt,
    vids,
    batch_i,        \* get_video_details' loop variable i
    rows,
    df,
    summary,
    brackets_dict,
    bracket,
    top20,
    excel_bytes,
    messages,       \* what the page shows, in order
    download,       \* the data of the download button, None when not offered
    calls,          \* every request the API client executed, with its response
    steps,          \* the calls of the handler that have returned, in order
    arg,            \* the input of a function applied on its own
    ret             \* and its result

vars ==
    <<pc, api_key, channel_input, analyze_all, start_date, end_date,
      short_limit, viewbr_json, channel_id, uploads_pl, nxt, vids, batch_i,
      rows, df, summary, brackets_dict, bracket, top20, excel_bytes, messages,
      download, calls, steps, arg, ret>>

\* the handler's locals before the handler has run
LocalsUnset ==
    /\ channel_id = None
    /\ uploads_pl = None
    /\ nxt = None
    /\ vids = <<>>
    /\ batch_i = 0
    /\ rows = <<>>
    /\ summary = None
    /\ brackets_dict = None
    /\ bracket = None
    /\ top20 = None
    /\ excel_bytes = None
    /\ messages = <<>>
    /\ download = None
    /\ calls = <<>>
    /\ steps = <<>>

\* ------------------------------------------------------------------------
\* The duration classifier applied on its own
\* ------------------------------------------------------------------------

MaxHours == 1

HourValues == 0..MaxHours
MinuteValues == {0, 2, 3, 59}
SecondValues == {0, 1, 59, 60, 180, 181}
LimitValues == {1, 60, 179, 180}

\* a component of a duration: absent, or a number written with or without a
\* leading zero
Components(values) ==
    {[present |-> FALSE, value |-> 0, text |-> <<>>]}
        \cup {[present |-> TRUE, value |-> v, text |-> StrOfNat(v)] : v \in values}
        \cup {[present |-> TRUE, value |-> v, text |-> <<"0">> \o StrOfNat(v)] :
                 v \in values}

\* the text PT[nH][nM][nS]
DurationText(h, m, s) ==
    <<"P", "T">>
        \o (IF h.present THEN h.text \o <<"H">> ELSE <<>>)
        \o (IF m.present THEN m.text \o <<"M">> ELSE <<>>)
        \o (IF s.present THEN s.text \o <<"S">> ELSE <<>>)

InitClassifier ==
    /\ pc = "classify"
    /\ \E h \in Components(HourValues), m \in Components(MinuteValues),
          s \in Components(SecondValues), lim \in LimitValues :
            arg = [duration_iso |-> DurationText(h, m, s), limit_sec |-> lim,
                   h |-> h, m |-> m, s |-> s]
    /\ ret = None
    /\ api_key = <<>> /\ channel_input = <<>> /\ analyze_all = TRUE
    /\ start_date = <<1970, 1, 1>> /\ end_date = Today
    /\ short_limit = SHORTS_LIMIT_SEC_DEFAULT
    /\ viewbr_json = None
    /\ df = None
    /\ LocalsUnset

ApplyCheckIfShort ==
    /\ pc = "classify"
    /\ ret' = check_if_short(arg.duration_iso, arg.limit_sec)
    /\ pc' = "classified"
    /\ UNCHANGED <<api_key, channel_input, analyze_all, start_date, end_date,
                   short_limit, viewbr_json, channel_id, uploads_pl, nxt, vids,
                   batch_i, rows, df, summary, brackets_dict, bracket, top20,
                   excel_bytes, messages, download, calls, steps, arg>>

NextClassifier == ApplyCheckIfShort

SpecClassifier == InitClassifier /\ [][NextClassifier]_vars

\* C7: for every duration PT[nH][nM][nS] and every threshold, check_if_short
\* returns true exactly when h*3600 + m*60 + s <= threshold, an absent
\* component counting as zero; a duration with no component is Short.
C7_ShortIffTotalAtMostLimit ==
    pc = "classified" =>
        /\ ret.raised = FALSE
        /\ ret.value = (arg.h.value * 3600 + arg.m.value * 60 + arg.s.value
                            <= arg.limit_sec)
        /\ (~arg.h.present /\ ~arg.m.present /\ ~arg.s.present => ret.value)

\* a duration with minutes and seconds whose total equals the threshold
C7_Witness ==
    /\ pc = "classified"
    /\ ~arg.h.present /\ arg.m.present /\ arg.s.present
    /\ arg.m.value > 0
    /\ arg.m.value * 60 + arg.s.value = arg.limit_sec
    /\ ret.value = TRUE

\* ------------------------------------------------------------------------
\* What the video API answers
\* ------------------------------------------------------------------------

PublishedAts ==
    <<IsoTimestamp(2024, 1, 15, 10, 0, 0), IsoTimestamp(2024, 4, 2, 23, 59, 59),
      IsoTimestamp(2023, 12, 31, 23, 59, 59)>>

\* viewCount is absent when a video hides its statistics
ViewCounts ==
    <<None, Some(StrOfNat(5000)), Some(StrOfNat(2000000)), Some(StrOfNat(999))>>

Durations ==
    << <<"P", "T", "3", "0", "S">>, <<"P", "T", "1", "0", "M">>,
       <<"P", "T", "1", "H">> >>

\* one item of a videos().list response
Item(id, publishedAt, viewCount, duration) ==
    [id             |-> id,
     snippet        |-> [title |-> <<"Title", id>>, publishedAt |-> publishedAt],
     statistics     |-> [viewCount |-> viewCount],
     contentDetails |-> [duration |-> duration]]

\* ------------------------------------------------------------------------
\* The aggregator's functions applied on their own
\* ------------------------------------------------------------------------

MaxVideos == 3
MaxTopN == 2

\* the items a small channel may consist of: two months, view counts on and
\* off the bracket boundaries, a short and a long duration; each choice
\* indexes PublishedAts, ViewCounts and Durations
ItemChoices == (1..2) \X (1..3) \X (1..2)

\* a mapping the user typed whose ranges are disjoint
CustomDisjoint ==
    << [name |-> "low", lo |-> 0, hi |-> 5000],
       [name |-> "high", lo |-> 5000, hi |-> 1000000000] >>

\* a mapping the user typed whose ranges overlap
CustomOverlap ==
    << [name |-> "wide", lo |-> 0, hi |-> 10000],
       [name |-> "mid", lo |-> 5000, hi |-> 20000] >>

BracketConfigs == {DEFAULT_VIEW_BRACKETS, CustomDisjoint, CustomOverlap}

TopNs == (0..MaxTopN) \cup {20}

AggDateRanges == {<<<<1970, 1, 1>>, Today>>, <<<<2024, 2, 1>>, Today>>}

InitAggregator ==
    /\ pc = "aggregate"
    /\ short_limit = SHORTS_LIMIT_SEC_DEFAULT
    /\ \E range \in AggDateRanges :
          /\ start_date = range[1]
          /\ end_date = range[2]
    /\ \E n \in 1..MaxVideos :
          \E choice \in [1..n -> ItemChoices] :
              arg = [items |-> [k \in 1..n |->
                                   Item(k, PublishedAts[choice[k][1]],
                                        ViewCounts[choice[k][2]],
                                        Durations[choice[k][3]])]]
    /\ \E made \in {MakeRows(arg.items, short_limit)} :
          \E frame \in {DataFrame(made)} :
              df = FilterByDate(frame, start_date, end_date)
    /\ ret = None
    /\ api_key = <<>> /\ channel_input = <<>> /\ analyze_all = FALSE
    /\ viewbr_json = None
    /\ LocalsUnset

AggUnchanged ==
    UNCHANGED <<api_key, channel_input, analyze_all, start_date, end_date,
                short_limit, viewbr_json, channel_id, uploads_pl, nxt, vids,
                batch_i, rows, df, summary, brackets_dict, bracket, top20,
                excel_bytes, messages, download, calls, steps, arg>>

ApplyMonthlySummary ==
    /\ pc = "aggregate"
    /\ Len(df.rows) > 0
    /\ ret' = [fn |-> "monthly_summary", value |-> monthly_summary(df)]
    /\ pc' = "aggregated"
    /\ AggUnchanged

ApplyViewBracketSplit ==
    /\ pc = "aggregate"
    /\ Len(df.rows) > 0
    /\ \E b \in BracketConfigs :
          ret' = [fn |-> "view_bracket_split", brackets |-> b,
                  value |-> view_bracket_split(df, b)]
    /\ pc' = "aggregated"
    /\ AggUnchanged

ApplyTopN ==
    /\ pc = "aggregate"
    /\ \E n \in TopNs :
          \E top \in top_n(df, n) :
              ret' = [fn |-> "top_n", n |-> n, value |-> top]
    /\ pc' = "aggregated"
    /\ AggUnchanged

NextAggregator ==
    \/ ApplyMonthlySummary
    \/ ApplyViewBracketSplit
    \/ ApplyTopN

SpecAggregator == InitAggregator /\ [][NextAggregator]_vars

\* the months of the frame's rows
MonthsOf(frame) == {frame.rows[k].month : k \in 1..Len(frame.rows)}

\* the number of the frame's rows in month m
VideosIn(frame, m) ==
    Cardinality({k \in 1..Len(frame.rows) : frame.rows[k].month = m})

\* C8: for every non-empty filtered video set, monthly_summary has exactly
\* one row per distinct month bucket, and in each row total_videos equals the
\* number of records with that month bucket and equals shorts + longs.
C8_SummaryCounts ==
    (pc = "aggregated" /\ ret.fn = "monthly_summary") =>
        LET out == ret.value.rows
        IN  /\ \A m \in MonthsOf(df) :
                  Cardinality({k \in 1..Len(out) : out[k].month = m}) = 1
            /\ \A k \in 1..Len(out) :
                  /\ out[k].month \in MonthsOf(df)
                  /\ out[k].total_videos = VideosIn(df, out[k].month)
                  /\ out[k].total_videos = out[k].shorts + out[k].longs

\* a summary of two months, one of them holding a Short and a Long
C8_Witness ==
    /\ pc = "aggregated"
    /\ ret.fn = "monthly_summary"
    /\ Len(ret.value.rows) = 2
    /\ \E k \in 1..2 :
          /\ ret.value.rows[k].shorts = 1
          /\ ret.value.rows[k].longs = 1
          /\ ret.value.rows[k].total_videos = 2

RECURSIVE SumCounts(_, _)
SumCounts(counts, names) ==
    IF names = {} THEN 0
    ELSE LET nm == CHOOSE x \in names : TRUE
         IN  counts[nm] + SumCounts(counts, names \ {nm})

\* the sum of the bracket counts of one row of the histogram
RowSum(row) == SumCounts(row.counts, DOMAIN row.counts)

\* no view count lies in two ranges of the mapping
NonOverlapping(brackets) ==
    \A a, b \in 1..Len(brackets) :
        a # b => ~(/\ BelowHi(brackets[a].lo, brackets[b].hi)
                   /\ BelowHi(brackets[b].lo, brackets[a].hi))

\* C9 as stated: for every month and every bracket configuration the run
\* accepts, the sum of the bracket counts in that month's row is at most the
\* number of videos in that month.
C9_RowSumAtMostVideos ==
    (pc = "aggregated" /\ ret.fn = "view_bracket_split") =>
        \A k \in 1..Len(ret.value.rows) :
            RowSum(ret.value.rows[k]) <= VideosIn(df, ret.value.rows[k].month)

\* C9 amended: the same bound for the default set and for every mapping
\* whose ranges do not overlap.
C9_RowSumAtMostVideosDisjoint ==
    (pc = "aggregated" /\ ret.fn = "view_bracket_split"
        /\ NonOverlapping(ret.brackets)) =>
        \A k \in 1..Len(ret.value.rows) :
            /\ ret.value.rows[k].month \in MonthsOf(df)
            /\ RowSum(ret.value.rows[k]) <= VideosIn(df, ret.value.rows[k].month)

\* a histogram under a user-supplied disjoint mapping with a month whose
\* videos are all counted, one of them on the boundary of two ranges
C9_Witness ==
    /\ pc = "aggregated"
    /\ ret.fn = "view_bracket_split"
    /\ ret.brackets = CustomDisjoint
    /\ \E k \in 1..Len(ret.value.rows) :
          /\ RowSum(ret.value.rows[k]) = 2
          /\ ret.value.rows[k].counts["high"] = 2
          /\ \E r \in 1..Len(df.rows) : df.rows[r].view_count = 5000

\* the position in the frame of the row with this identifier
PositionOf(frame, video_id) ==
    CHOOSE k \in 1..Len(frame.rows) : frame.rows[k].video_id = video_id

Min(a, b) == IF a < b THEN a ELSE b

\* the rows returned are min(N, number of videos) distinct videos of the
\* frame in non-increasing order of view count, and no video left out has
\* more views than one returned
TopNSelects(out, n) ==
    LET taken == {out[k].video_id : k \in 1..Len(out)}
    IN  /\ Len(out) = Min(n, Len(df.rows))
        /\ Cardinality(taken) = Len(out)
        /\ \A k \in 1..Len(out) :
              \E r \in 1..Len(df.rows) :
                  /\ df.rows[r].video_id = out[k].video_id
                  /\ df.rows[r].view_count = out[k].view_count
        /\ \A k \in 1..(Len(out) - 1) :
              out[k].view_count >= out[k + 1].view_count
        /\ \A r \in 1..Len(df.rows) :
              df.rows[r].video_id \notin taken =>
                  \A k \in 1..Len(out) :
                      df.rows[r].view_count <= out[k].view_count

\* neighbours of equal view count appear in their input order
TiesInInputOrder(out) ==
    \A k \in 1..(Len(out) - 1) :
        out[k].view_count = out[k + 1].view_count =>
            PositionOf(df, out[k].video_id) < PositionOf(df, out[k + 1].video_id)

MaxPages == 3

\* the numbers of items a playlist page may hold (at most MAX_RESULTS)
PageSizes == {0, 1, MAX_RESULTS}

ApiKeys == {<<>>, <<"A", "I", "z", "a">>}

\* nothing typed, an identifier between blanks, a channel URL, blanks only
ChannelInputs ==
    {<<>>, <<" ", "U", "C", "1", " ">>,
     YoutubeCom \o <<"/", "c", "/", "U", "C", "1">>, <<" ">>}

\* the ranges of the two date pickers when the whole history is not wanted
PickedRanges ==
    {<<<<2010, 1, 1>>, <<2010, 12, 31>>>>, <<<<2024, 1, 1>>, Today>>}

\* the video the API holds under an identifier
VideoItem(id) ==
    Item(id, PublishedAts[(id % 3) + 1], ViewCounts[(id % 4) + 1],
         Durations[((id \div 2) % 3) + 1])

Init ==
    /\ pc = "clicked"
    /\ api_key \in ApiKeys
    /\ channel_input \in ChannelInputs
    /\ analyze_all \in BOOLEAN
    /\ IF analyze_all
       THEN start_date = <<1970, 1, 1>> /\ end_date = Today
       ELSE \E range \in PickedRanges :
               start_date = range[1] /\ end_date = range[2]
    /\ short_limit = SHORTS_LIMIT_SEC_DEFAULT
    /\ viewbr_json \in ViewbrTexts
    /\ df = None
    /\ arg = None
    /\ ret = None
    /\ LocalsUnset

\* an uncaught exception: the page shows it and the script ends
Raise(what) ==
    /\ messages' = Append(messages, [kind |-> "exception", text |-> what])
    /\ pc' = AfterStep(TRUE, pc)

\* lines 177-180: the inputs are missing; the error is shown and the script
\* stops
StopOnMissingInput ==
    /\ pc = "clicked"
    /\ InputsMissing(api_key, channel_input)
    /\ messages' = Append(messages,
           [kind |-> "error", text |-> "API key and channel ID/URL are required."])
    /\ pc' = "stopped"
    /\ UNCHANGED <<api_key, channel_input, analyze_all, start_date, end_date,
                   short_limit, viewbr_json, channel_id, uploads_pl, nxt, vids,
                   batch_i, rows, df, summary, brackets_dict, bracket, top20,
                   excel_bytes, download, calls, steps, arg, ret>>

\* lines 182-187: the channel identifier is taken from the input and the
\* client is built
BuildClient ==
    /\ pc = "clicked"
    /\ ~InputsMissing(api_key, channel_input)
    /\ channel_id' = Some(ChannelIdOf(channel_input))
    /\ pc' = "channels_list"
    /\ UNCHANGED <<api_key, channel_input, analyze_all, start_date, end_date,
                   short_limit, viewbr_json, uploads_pl, nxt, vids, batch_i,
                   rows, df, summary, brackets_dict, bracket, top20,
                   excel_bytes, messages, download, calls, steps, arg, ret>>

\* lines 39-44: the channel lookup. The API answers with the channel and its
\* uploads playlist, with no item (the subscript then raises IndexError), or
\* with an error
ChannelsList ==
    /\ pc = "channels_list"
    /\ \E outcome \in {"found", "no_items", "http_error"} :
          /\ calls' = Append(calls,
                 [api |-> "channels", request |-> [id |-> channel_id],
                  ok |-> outcome # "http_error",
                  response |-> [items |-> IF outcome = "found"
                                          THEN <<"UU1">> ELSE <<>>,
                                nextPageToken |-> None]])
          /\ IF outcome = "found"
             THEN /\ uploads_pl' = Some("UU1")
                  /\ pc' = AfterStep(FALSE, "playlist_items")
                  /\ UNCHANGED messages
             ELSE /\ Raise(IF outcome = "no_items" THEN "IndexError" ELSE "HttpError")
                  /\ UNCHANGED uploads_pl
    /\ vids' = <<>>
    /\ nxt' = None
    /\ UNCHANGED <<api_key, channel_input, analyze_all, start_date, end_date,
                   short_limit, viewbr_json, channel_id, batch_i, rows, df,
                   summary, brackets_dict, bracket, top20, excel_bytes,
                   download, steps, arg, ret>>

\* the pages requested so far
PagesRequested == Len(SelectSeq(calls, LAMBDA c : c.api = "playlistItems"))

\* the token the API hands out with its p-th page
TokenOfPage(p) == <<"token", p>>

\* lines 45-55 and 59-60: one playlist page is requested with the token of
\* the page before; its identifiers are appended; without a next token
\* get_all_video_ids returns, and get_video_details starts (and returns an
\* empty frame at once when there is no identifier)
PlaylistItemsList ==
    /\ pc = "playlist_items"
    /\ \E ok \in BOOLEAN, size \in PageSizes, more \in BOOLEAN :
          LET p == PagesRequested + 1
              page == [k \in 1..size |-> Len(vids) + k]
              token == IF more THEN Some(TokenOfPage(p)) ELSE None
              resp == [items |-> IF ok THEN page ELSE <<>>,
                       nextPageToken |-> IF ok THEN token ELSE None]
              all == Extend(vids, resp.items)
          IN  /\ more => p < MaxPages
              /\ ~ok => (size = 0 /\ ~more)
              /\ calls' = Append(calls,
                     [api |-> "playlistItems",
                      request |-> [playlistId |-> uploads_pl, pageToken |-> nxt],
                      ok |-> ok, response |-> resp])
              /\ IF ~ok
                 THEN /\ Raise("HttpError")
                      /\ UNCHANGED <<vids, nxt, batch_i, rows, df, steps>>
                 ELSE /\ vids' = all
                      /\ nxt' = resp.nextPageToken
                      /\ UNCHANGED messages
                      /\ IF ~Falsy(resp.nextPageToken)
                         THEN /\ pc' = AfterStep(FALSE, "playlist_items")
                              /\ UNCHANGED <<batch_i, rows, df, steps>>
                         ELSE /\ rows' = <<>>
                              /\ batch_i' = 0
                              /\ IF Len(all) = 0
                                 THEN /\ df' = DataFrame(<<>>)
                                      /\ steps' = steps \o <<"get_all_video_ids",
                                                             "get_video_details">>
                                      /\ pc' = AfterStep(FALSE, "filter")
                                 ELSE /\ steps' = Append(steps, "get_all_video_ids")
                                      /\ pc' = AfterStep(FALSE, "videos_list")
                                      /\ UNCHANGED df
    /\ UNCHANGED <<api_key, channel_input, analyze_all, start_date, end_date,
                   short_limit, viewbr_json, channel_id, uploads_pl, summary,
                   brackets_dict, bracket, top20, excel_bytes, download, arg,
                   ret>>

\* lines 60-86: one batch of details is requested and its rows are appended;
\* after the last batch the frame is built
VideosList ==
    /\ pc = "videos_list"
    /\ \E ok \in BOOLEAN :
          \E batch \in {BatchSlice(vids, batch_i)} :
          \E items \in {IF ok THEN [k \in 1..Len(batch) |-> VideoItem(batch[k])]
                        ELSE <<>>} :
          \E results \in {MakeRowResults(items, short_limit)} :
          \E made \in {RowsOf(results)} :
              /\ calls' = Append(calls,
                     [api |-> "videos", request |-> [id |-> batch],
                      ok |-> ok,
                      response |-> [items |-> items, nextPageToken |-> None]])
              /\ IF ~ok
                 THEN /\ Raise("HttpError")
                      /\ UNCHANGED <<rows, batch_i, df, steps>>
                 ELSE IF AnyRaised(results)
                 THEN /\ Raise("ValueError")
                      /\ UNCHANGED <<rows, batch_i, df, steps>>
                 ELSE /\ rows' = rows \o made
                      /\ batch_i' = batch_i + BATCH
                      /\ UNCHANGED messages
                      /\ IF batch_i + BATCH < Len(vids)
                         THEN /\ pc' = AfterStep(FALSE, "videos_list")
                              /\ UNCHANGED <<df, steps>>
                         ELSE /\ df' = DataFrame(rows \o made)
                              /\ steps' = Append(steps, "get_video_details")
                              /\ pc' = AfterStep(FALSE, "filter")
    /\ UNCHANGED <<api_key, channel_input, analyze_all, start_date, end_date,
                   short_limit, viewbr_json, channel_id, uploads_pl, nxt, vids,
                   summary, brackets_dict, bracket, top20, excel_bytes,
                   download, arg, ret>>

\* line 193: the rows within the date range; a frame without columns (no
\* row was ever built) has no published_date column and raises KeyError
FilterDates ==
    /\ pc = "filter"
    /\ IF "published_date" \in df.cols
       THEN /\ df' = FilterByDate(df, start_date, end_date)
            /\ steps' = Append(steps, "filter")
            /\ pc' = AfterStep(FALSE, "monthly_summary")
            /\ UNCHANGED messages
       ELSE /\ Raise("KeyError")
            /\ UNCHANGED <<df, steps>>
    /\ UNCHANGED <<api_key, channel_input, analyze_all, start_date, end_date,
                   short_limit, viewbr_json, channel_id, uploads_pl, nxt, vids,
                   batch_i, rows, summary, brackets_dict, bracket, top20,
                   excel_bytes, download, calls, arg, ret>>

\* line 195. On a frame without rows the two g.apply(...) columns are empty
\* frames, which the DataFrame constructor of some pandas versions rejects:
\* the call then either raises or returns an empty summary
MonthlySummary ==
    /\ pc = "monthly_summary"
    /\ \E raised \in BOOLEAN :
          /\ raised => Len(df.rows) = 0
          /\ IF raised
             THEN /\ Raise("ValueError")
                  /\ UNCHANGED <<summary, steps>>
             ELSE /\ summary' = monthly_summary(df)
                  /\ steps' = Append(steps, "monthly_summary")
                  /\ pc' = AfterStep(FALSE, "eval_brackets")
                  /\ UNCHANGED messages
    /\ UNCHANGED <<api_key, channel_input, analyze_all, start_date, end_date,
                   short_limit, viewbr_json, channel_id, uploads_pl, nxt, vids,
                   batch_i, rows, df, brackets_dict, bracket, top20,
                   excel_bytes, download, calls, arg, ret>>

\* lines 196-202: the bracket text is evaluated; the warning is shown when
\* the evaluation raises
EvalBrackets ==
    /\ pc = "eval_brackets"
    /\ LET chosen == ChooseBrackets(viewbr_json)
       IN  /\ brackets_dict' = chosen
           /\ messages' =
                 IF chosen.warned
                 THEN Append(messages,
                          [kind |-> "warning",
                           text |-> "Invalid custom bracket JSON; using defaults."])
                 ELSE messages
    /\ steps' = Append(steps, "eval_brackets")
    /\ pc' = AfterStep(FALSE, "view_bracket_split")
    /\ UNCHANGED <<api_key, channel_input, analyze_all, start_date, end_date,
                   short_limit, viewbr_json, channel_id, uploads_pl, nxt, vids,
                   batch_i, rows, df, summary, bracket, top20, excel_bytes,
                   download, calls, arg, ret>>

\* line 204. Without a row there is no group: `out` stays empty, the frame
\* built from it has no month column and sort_values raises KeyError. With a
\* row, a dict whose values are not pairs fails to unpack (TypeError)
ViewBracketSplit ==
    /\ pc = "view_bracket_split"
    /\ IF Len(df.rows) = 0
       THEN /\ Raise("KeyError")
            /\ UNCHANGED <<bracket, steps>>
       ELSE IF ~brackets_dict.pairs
       THEN /\ Raise("TypeError")
            /\ UNCHANGED <<bracket, steps>>
       ELSE /\ bracket' = view_bracket_split(df, brackets_dict.brackets)
            /\ steps' = Append(steps, "view_bracket_split")
            /\ pc' = AfterStep(FALSE, "top_n")
            /\ UNCHANGED messages
    /\ UNCHANGED <<api_key, channel_input, analyze_all, start_date, end_date,
                   short_limit, viewbr_json, channel_id, uploads_pl, nxt, vids,
                   batch_i, rows, df, summary, brackets_dict, top20,
                   excel_bytes, download, calls, arg, ret>>

\* the default of top_n's parameter n, line 117
TOP_N_DEFAULT == 20

\* line 205
TopN ==
    /\ pc = "top_n"
    /\ top20' \in top_n(df, TOP_N_DEFAULT)
    /\ steps' = Append(steps, "top_n")
    /\ pc' = AfterStep(FALSE, "to_excel")
    /\ UNCHANGED <<api_key, channel_input, analyze_all, start_date, end_date,
                   short_limit, viewbr_json, channel_id, uploads_pl, nxt, vids,
                   batch_i, rows, df, summary, brackets_dict, bracket,
                   excel_bytes, messages, download, calls, arg, ret>>

\* line 207: the workbook is written, unless the writer fails (the
\* xlsxwriter engine is missing, say)
ToExcel ==
    /\ pc = "to_excel"
    /\ \E raised \in BOOLEAN :
          IF raised
          THEN /\ Raise("ImportError")
               /\ UNCHANGED <<excel_bytes, steps>>
          ELSE /\ excel_bytes' = to_excel(df, summary, bracket, top20)
               /\ steps' = Append(steps, "to_excel")
               /\ pc' = AfterStep(FALSE, "offer")
               /\ UNCHANGED messages
    /\ UNCHANGED <<api_key, channel_input, analyze_all, start_date, end_date,
                   short_limit, viewbr_json, channel_id, uploads_pl, nxt, vids,
                   batch_i, rows, df, summary, brackets_dict, bracket, top20,
                   download, calls, arg, ret>>

\* lines 208-214: success is shown and the workbook offered for download
OfferDownload ==
    /\ pc = "offer"
    /\ messages' = Append(messages,
           [kind |-> "success", text |-> "Analysis complete."])
    /\ download' = Some(excel_bytes)
    /\ pc' = "done"
    /\ UNCHANGED <<api_key, channel_input, analyze_all, start_date, end_date,
                   short_limit, viewbr_json, channel_id, uploads_pl, nxt, vids,
                   batch_i, rows, df, summary, brackets_dict, bracket, top20,
                   excel_bytes, calls, steps, arg, ret>>

Next ==
    \/ StopOnMissingInput
    \/ BuildClient
    \/ ChannelsList
    \/ PlaylistItemsList
    \/ VideosList
    \/ FilterDates
    \/ MonthlySummary
    \/ EvalBrackets
    \/ ViewBracketSplit
    \/ TopN
    \/ ToExcel
    \/ OfferDownload

Spec == Init /\ [][Next]_vars

\* ------------------------------------------------------------------------
\* Claims about the handler and the fetcher
\* ------------------------------------------------------------------------

LookupCalls == SelectSeq(calls, LAMBDA c : c.api = "channels")
PageCalls == SelectSeq(calls, LAMBDA c : c.api = "playlistItems")
DetailCalls == SelectSeq(calls, LAMBDA c : c.api = "videos")

\* the call of this name has returned
Returned(name) == \E k \in 1..Len(steps) : steps[k] = name

\* the run is over
Ended == pc \in {"stopped", "fatal", "done"}

Shown(kind) == \E k \in 1..Len(messages) : messages[k].kind = kind

RECURSIVE ConcatResponses(_)
ConcatResponses(cs) ==
    IF Len(cs) = 0 THEN <<>>
    ELSE cs[1].response.items \o ConcatResponses(Tail(cs))

RECURSIVE ConcatRequests(_)
ConcatRequests(cs) ==
    IF Len(cs) = 0 THEN <<>>
    ELSE cs[1].request.id \o ConcatRequests(Tail(cs))

\* C1: get_all_video_ids issues exactly one channel lookup, then requests
\* playlist pages one after another, each request after the first carrying
\* the continuation token of the previous response; it stops at the first
\* response without a token, and the returned list is the concatenation of
\* the identifiers of every fetched page, in page order then within-page
\* order.
C1_Pagination ==
    LET pages == PageCalls
    IN  /\ Len(LookupCalls) <= 1
        /\ Len(calls) > 0 => calls[1].api = "channels"
        /\ Len(pages) > 0 => LookupCalls[1].ok
        /\ \A k \in 1..Len(pages) :
              /\ pages[k].request.playlistId = Some(LookupCalls[1].response.items[1])
              /\ pages[k].request.pageToken =
                    IF k = 1 THEN None ELSE pages[k - 1].response.nextPageToken
              /\ k < Len(pages) =>
                    /\ pages[k].ok
                    /\ pages[k].response.nextPageToken # None
        /\ Returned("get_all_video_ids") =>
              /\ Len(pages) >= 1
              /\ pages[Len(pages)].ok
              /\ pages[Len(pages)].response.nextPageToken = None
              /\ vids = ConcatResponses(pages)

\* three pages fetched, the first and the last full, and the list returned
C1_Witness ==
    /\ Returned("get_all_video_ids")
    /\ Len(PageCalls) = 3
    /\ Len(PageCalls[1].response.items) = 50
    /\ Len(PageCalls[2].response.items) = 1
    /\ Len(PageCalls[3].response.items) = 50
    /\ Len(vids) = 101

\* C2: for every list of n identifiers, get_video_details issues exactly
\* ceil(n/50) detail requests (none when n = 0), each carrying at most 50
\* identifiers, and the concatenation of the requests' identifier lists in
\* issue order equals the input list.
C2_Batches ==
    Returned("get_video_details") =>
        LET details == DetailCalls
        IN  /\ Len(details) = (Len(vids) + 49) \div 50
            /\ \A k \in 1..Len(details) : Len(details[k].request.id) <= 50
            /\ ConcatRequests(details) = vids

\* 101 identifiers fetched in three requests of 50, 50 and 1
C2_Witness ==
    /\ Returned("get_video_details")
    /\ Len(vids) = 101
    /\ Len(DetailCalls) = 3
    /\ Len(DetailCalls[3].request.id) = 1

\* C3: when the run starts with an empty API key or an empty channel
\* identifier, the error is reported and the run is aborted before any
\* network call: no lookup, page or detail request is ever issued, and no
\* report is produced.
C3_NoCallOnMissingInput ==
    (api_key = <<>> \/ channel_input = <<>>) =>
        /\ calls = <<>>
        /\ steps = <<>>
        /\ excel_bytes = None
        /\ download = None
        /\ pc \in {"clicked", "stopped"}
        /\ pc = "stopped" => (Len(messages) = 1 /\ messages[1].kind = "error")

\* a run stopped for its empty API key although a channel was given
C3_Witness ==
    /\ pc = "stopped"
    /\ api_key = <<>>
    /\ channel_input # <<>>
    /\ Shown("error")

\* C4 as stated: when no video remains after the date filter (or the
\* channel has no video at all), the run shows a distinct warning and ends
\* without a fatal error and without a report.
C4_EmptyResultWarns ==
    (Ended /\ Returned("get_video_details") /\ Len(df.rows) = 0) =>
        /\ pc # "fatal"
        /\ Shown("warning")
        /\ ~Shown("exception")
        /\ download = None

\* C5: the report is offered only if the channel lookup, every page request,
\* every detail request, the three aggregations and the export all completed
\* without error; a failure at any step ends the run with no report.
C5_AllOrNothing ==
    /\ download # None =>
          /\ pc = "done"
          /\ \A k \in 1..Len(calls) : calls[k].ok
          /\ ~Shown("exception")
          /\ Len(LookupCalls) = 1
          /\ Len(PageCalls) >= 1
          /\ Len(DetailCalls) = (Len(vids) + 49) \div 50
          /\ steps = <<"get_all_video_ids", "get_video_details", "filter",
                       "monthly_summary", "eval_brackets", "view_bracket_split",
                       "top_n", "to_excel">>
          /\ download = Some(excel_bytes)
    /\ (Shown("exception") \/ \E k \in 1..Len(calls) : ~calls[k].ok) =>
          /\ pc = "fatal"
          /\ download = None

\* a report offered for a channel whose details took more than one request
C5_Witness ==
    /\ pc = "done"
    /\ download # None
    /\ Len(DetailCalls) >= 2
    /\ Shown("success")

\* C6 as stated: for every bracket text that is not a valid mapping (its
\* evaluation raises, or it evaluates to something that is not a mapping),
\* the run emits a warning, uses the default brackets and continues. Stated
\* for the runs in which a video is left after the date filter.
C6_InvalidTextWarnsAndDefaults ==
    (Returned("eval_brackets") /\ Len(df.rows) > 0
        /\ (PyEval(viewbr_json).raised \/ ~PyEval(viewbr_json).isdict)) =>
        /\ Shown("warning")
        /\ brackets_dict.brackets = DEFAULT_VIEW_BRACKETS

====
